---- MODULE Spec2Model ----
(***************************************************************************)
(* A model of the field-parsing and value-coercion core of sportsipy:      *)
(*   - sportsipy/ncaab/player.py       (_cleanup and the int/float         *)
(*                                      property decorators),              *)
(*   - sportsipy/mlb/teams.py          (mlb_int_property_decorator, Team,  *)
(*                                      Teams),                            *)
(*   - sportsreference/mlb/schedule.py (Game, Schedule).                   *)
(*                                                                         *)
(* Python values are records of one shape, so that any two of them can be  *)
(* compared: t is the Python type ("None", "int", "float", "str"), or      *)
(* "raise" for an exception that leaves the call.  A str is the sequence   *)
(* of its characters (s); a float is the decimal n / 10^d.                 *)
(*                                                                         *)
(* The state is the entity or collection under construction/reading (obj), *)
(* the last operation applied to it (call) and what it returned or raised  *)
(* (ret), and the documents requested from the document provider so far    *)
(* (fetched).  Each component has its own specification (SpecPlayer,       *)
(* SpecTeam, SpecGame, SpecTeams, ...), all over these four variables.     *)
(***************************************************************************)
EXTENDS Integers, Sequences, FiniteSets, TLC

VARIABLES obj, call, ret, fetched

vars == <<obj, call, ret, fetched>>

(***************************************************************************)
(* Python values                                                           *)
(***************************************************************************)
None == [t |-> "None", n |-> 0, d |-> 0, s |-> <<>>]

IntV(i) == [t |-> "int", n |-> i, d |-> 0, s |-> <<>>]

StrV(chars) == [t |-> "str", n |-> 0, d |-> 0, s |-> chars]

Raise(e) == [t |-> "raise", n |-> 0, d |-> 0, s |-> <<e>>]

\* A list of the items
ListV(items) == [t |-> "list", n |-> 0, d |-> 0, s |-> items]

RECURSIVE FloatV(_, _)
\* The float n / 10^d, in lowest decimal form (3.0 and 3 are the same float).
FloatV(i, k) ==
    IF k > 0 /\ i % 10 = 0 THEN FloatV(i \div 10, k - 1)
    ELSE [t |-> "float", n |-> i, d |-> k, s |-> <<>>]

IsRaise(v) == v.t = "raise"

IsStr(v) == v.t = "str"

(***************************************************************************)
(* Python's str methods and the int() and float() constructors             *)
(***************************************************************************)
Digits == <<"0", "1", "2", "3", "4", "5", "6", "7", "8", "9">>

IsDigit(c) == \E i \in DOMAIN Digits : Digits[i] = c

DigitVal(c) == (CHOOSE i \in DOMAIN Digits : Digits[i] = c) - 1

IsSpace(c) == c = " "

\* s[a..b], 1-based and inclusive; empty when a > b
Slice(s, a, b) == IF a > b THEN <<>> ELSE SubSeq(s, a, b)

\* str.strip(): leading and trailing whitespace removed
Strip(s) ==
    LET keep == {i \in DOMAIN s : ~IsSpace(s[i])}
    IN  IF keep = {} THEN <<>>
        ELSE Slice(s, CHOOSE i \in keep : \A j \in keep : i <= j,
                      CHOOSE i \in keep : \A j \in keep : i >= j)

\* str.replace(c, ''): every occurrence of the character c removed
Replace(s, c) == SelectSeq(s, LAMBDA x : x # c)

RECURSIVE DigitsVal(_)
DigitsVal(s) ==
    IF s = <<>> THEN 0
    ELSE DigitsVal(SubSeq(s, 1, Len(s) - 1)) * 10 + DigitVal(s[Len(s)])

AllDigits(s) == \A i \in DOMAIN s : IsDigit(s[i])

\* The digit part of an int literal: digits, single underscores between them.
IsDigitPart(s) ==
    /\ s # <<>>
    /\ IsDigit(s[1]) /\ IsDigit(s[Len(s)])
    /\ \A i \in DOMAIN s : IsDigit(s[i]) \/ s[i] = "_"
    /\ \A i \in 1..(Len(s) - 1) : ~(s[i] = "_" /\ s[i + 1] = "_")

HasSign(s) == s # <<>> /\ s[1] \in {"+", "-"}

Signed(s, i) == IF s # <<>> /\ s[1] = "-" THEN 0 - i ELSE i

\* int(x), for the arguments the code passes: a str, None or an int
PyInt(v) ==
    CASE v.t = "int" -> v
      [] v.t = "str" ->
            LET b == Strip(v.s)
                body == IF HasSign(b) THEN Tail(b) ELSE b
            IN  IF IsDigitPart(body)
                THEN IntV(Signed(b, DigitsVal(Replace(body, "_"))))
                ELSE Raise("ValueError")
      [] OTHER -> Raise("TypeError")

\* float(x).  The texts of the model hold no exponent and no "inf"/"nan"
\* literal, so a float literal is [sign] digits [. digits] with at least one
\* digit.
PyFloat(v) ==
    CASE v.t = "float" -> v
      [] v.t = "int" -> FloatV(v.n, 0)
      [] v.t = "str" ->
            LET b == Strip(v.s)
                body == IF HasSign(b) THEN Tail(b) ELSE b
                dots == {i \in DOMAIN body : body[i] = "."}
                dot == IF dots = {} THEN Len(body) + 1
                       ELSE CHOOSE i \in dots : \A j \in dots : i <= j
                ip == Slice(body, 1, dot - 1)
                fp == Slice(body, dot + 1, Len(body))
            IN  IF /\ (ip = <<>> \/ IsDigitPart(ip))
                   /\ (fp = <<>> \/ IsDigitPart(fp))
                   /\ (ip # <<>> \/ fp # <<>>)
                THEN LET f == Replace(fp, "_")
                     IN  FloatV(Signed(b, DigitsVal(Replace(ip, "_") \o f)),
                                Len(f))
                ELSE Raise("ValueError")
      [] OTHER -> Raise("TypeError")

\* list[i]: Python's indexing, negative indices counting from the end
PyIndex(list, i) ==
    IF i >= 0 /\ i < Len(list) THEN list[i + 1]
    ELSE IF i < 0 /\ 0 - i <= Len(list) THEN list[Len(list) + i + 1]
    ELSE Raise("IndexError")

\* All sequences over S of length at most n
SeqsUpTo(S, n) == UNION {[1..k -> S] : k \in 0..n}

(***************************************************************************)
(* ncaab/player.py: _cleanup and the property decorators                   *)
(***************************************************************************)
\* a mutant: the '+' is left in the token
CleanupKeepsPlus(prop) ==
    IF IsStr(prop) THEN StrV(Replace(Replace(prop.s, "%"), ","))
    ELSE StrV(<<>>)

Cleanup(prop) ==
    IF IsStr(prop)
    THEN StrV(Replace(Replace(Replace(prop.s, "%"), ","), "+"))
    ELSE StrV(<<>>)         \* AttributeError: no .replace

\* a mutant: the ValueError of int() is not caught
IntPropertyNoExcept(player, field) ==
    LET elem == PyIndex(player.raw[field], player.index)
    IN  IF IsRaise(elem) THEN elem ELSE PyInt(Cleanup(elem))

IntProperty(player, field) ==
    LET elem == PyIndex(player.raw[field], player.index)
        value == IF IsRaise(elem) THEN elem ELSE PyInt(Cleanup(elem))
    IN  IF value = Raise("ValueError") THEN None ELSE value

FloatProperty(player, field) ==
    LET elem == PyIndex(player.raw[field], player.index)
        value == IF IsRaise(elem) THEN elem ELSE PyFloat(Cleanup(elem))
    IN  IF value = Raise("ValueError") THEN None ELSE value

\* The player's stat fields of the model: one read through
\* _int_property_decorator, one through _float_property_decorator.
PlayerIntFields == {"points"}

PlayerFloatFields == {"field_goal_percentage"}

PlayerFields == PlayerIntFields \cup PlayerFloatFields

\* The characters of a stat cell
TokenChars == {"1", "2", "%", ",", "+", "-", ".", "a"}

MaxTokenLen == 3

\* What a raw element can be: absent, a str, or a value that is not a str
RawTokens ==
    {None, IntV(7)} \cup {StrV(s) : s \in SeqsUpTo(TokenChars, MaxTokenLen)}

\* A player built from a single fragment (BoxscorePlayer): every parsed field
\* holds a list of one raw value; the fragment has the cell of one field.
PlayerInit ==
    /\ \E f \in PlayerFields, tok \in RawTokens :
          obj = [index |-> 0,
                 raw |-> [g \in PlayerFields |->
                            IF g = f THEN <<tok>> ELSE <<None>>]]
    /\ call = "init"
    /\ ret = None
    /\ fetched = <<>>

PlayerReadInt(f) ==
    /\ call' = f
    /\ ret' = IntProperty(obj, f)
    /\ UNCHANGED <<obj, fetched>>

PlayerReadFloat(f) ==
    /\ call' = f
    /\ ret' = FloatProperty(obj, f)
    /\ UNCHANGED <<obj, fetched>>

PlayerNext ==
    \/ \E f \in PlayerIntFields : PlayerReadInt(f)
    \/ \E f \in PlayerFloatFields : PlayerReadFloat(f)

SpecPlayer == PlayerInit /\ [][PlayerNext]_vars

(***************************************************************************)
(* mlb/teams.py: mlb_int_property_decorator and Team                       *)
(***************************************************************************)
\* Whether pattern p occurs in s at position i
OccursAt(s, p, i) ==
    /\ i >= 1 /\ i + Len(p) - 1 <= Len(s)
    /\ \A k \in DOMAIN p : s[i + k - 1] = p[k]

\* p in s
Contains(s, p) == \E i \in 1..(Len(s) + 1) : OccursAt(s, p, i)

RECURSIVE Split(_, _)
\* str.split(c): the parts between the occurrences of the character c
Split(s, c) ==
    LET at == {i \in DOMAIN s : s[i] = c}
    IN  IF at = {} THEN <<s>>
        ELSE LET i == CHOOSE x \in at : \A y \in at : x <= y
             IN  <<Slice(s, 1, i - 1)>> \o Split(Slice(s, i + 1, Len(s)), c)

\* constants.TEAM_ELEMENT: the position of each accessor's sub-token in the
\* "W-L" text it reads
TEAM_ELEMENT ==
    [home_wins |-> 0, home_losses |-> 1, away_wins |-> 0, away_losses |-> 1]

\* a mutant: every accessor reads the first sub-token
MlbIntPropertyFirstToken(value, field) ==
    IF ~IsStr(value) THEN None
    ELSE IF field \notin DOMAIN TEAM_ELEMENT THEN Raise("KeyError")
    ELSE LET r == PyInt(StrV(Split(value.s, "-")[1]))
         IN  IF IsRaise(r) THEN None ELSE r

\* a mutant: the IndexError of record[...] is not caught
MlbIntPropertyNoIndexError(value, field) ==
    IF ~IsStr(value) THEN None
    ELSE IF field \notin DOMAIN TEAM_ELEMENT THEN Raise("KeyError")
    ELSE LET record == [i \in DOMAIN Split(value.s, "-") |->
                          StrV(Split(value.s, "-")[i])]
             elem == PyIndex(record, TEAM_ELEMENT[field])
             r == IF IsRaise(elem) THEN elem ELSE PyInt(elem)
         IN  IF r \in {Raise("TypeError"), Raise("ValueError")}
             THEN None ELSE r

\* mlb_int_property_decorator's wrapper, on the value func returns and the
\* name of func
MlbIntProperty(value, field) ==
    IF ~IsStr(value) THEN None          \* AttributeError: no .split
    ELSE IF field \notin DOMAIN TEAM_ELEMENT
    THEN Raise("KeyError")              \* TEAM_ELEMENT[field]: not caught
    ELSE LET record == [i \in DOMAIN Split(value.s, "-") |->
                          StrV(Split(value.s, "-")[i])]
             elem == PyIndex(record, TEAM_ELEMENT[field])
             r == IF IsRaise(elem) THEN elem ELSE PyInt(elem)
         IN  IF r \in {Raise("TypeError"), Raise("ValueError"),
                       Raise("IndexError")}
             THEN None ELSE r

\* The fields of a Team that the model keeps, in the order __init__ declares
\* them: the two the caller passes, the two with their own extraction, two
\* that share a locator, and the "W-L" records.
TeamFields ==
    <<"year", "rank", "abbreviation", "name", "runs", "interleague_record",
      "home_record", "away_record", "total_runs">>

\* constants.ELEMENT_INDEX: the occurrence a field reads of a shared locator
ELEMENT_INDEX == [total_runs |-> 1]

\* constants.PARSING_SCHEME: the locator of each field
PARSING_SCHEME ==
    [abbreviation |-> "team_ID", runs |-> "R", total_runs |-> "R",
     interleague_record |-> "record_interleague",
     home_record |-> "record_home", away_record |-> "record_road"]

\* utils._parse_field: the text of the index-th match of the field's
\* locator in the fragment, None when there is no such match
ParseField(scheme, data, field, index) ==
    LET found == data.cells[scheme[field]]
    IN  IF index < Len(found) THEN found[index + 1] ELSE None

\* str(x) of a str or None
PyStr(v) == IF v.t = "None" THEN StrV(<<"N", "o", "n", "e">>) ELSE v

\* re.sub(r'.*title="', '', s): s after the last occurrence of title="
AfterTitle(s) ==
    LET pat == <<"t", "i", "t", "l", "e", "=", "\"">>
        at == {i \in DOMAIN s : OccursAt(s, pat, i)}
    IN  IF at = {} THEN s
        ELSE Slice(s, (CHOOSE i \in at : \A j \in at : i >= j) + Len(pat),
                   Len(s))

\* re.sub(r'".*', '', s): s before its first double quote
BeforeQuote(s) ==
    LET at == {i \in DOMAIN s : s[i] = "\""}
    IN  IF at = {} THEN s
        ELSE Slice(s, 1, (CHOOSE i \in at : \A j \in at : i <= j) - 1)

\* Team._parse_name: the text of the fragment's first anchor
ParseName(data) ==
    IF data.anchors = <<>> THEN Raise("IndexError")    \* team_data('a')[0]
    ELSE StrV(BeforeQuote(AfterTitle(PyStr(data.anchors[1]).s)))

RECURSIVE ParseTeamDataOnlyRankSkipped(_, _, _)
\* a mutant: only rank is left out of the parse, and year is given the value
\* of a locator that finds nothing
ParseTeamDataOnlyRankSkipped(self, data, i) ==
    IF i > Len(TeamFields) THEN self
    ELSE LET field == TeamFields[i]
         IN  IF field = "rank"
             THEN ParseTeamDataOnlyRankSkipped(self, data, i + 1)
             ELSE IF field = "year"
             THEN ParseTeamDataOnlyRankSkipped(
                    [self EXCEPT !.f["year"] = None], data, i + 1)
             ELSE IF field = "name"
             THEN LET name == ParseName(data)
                  IN  IF IsRaise(name) THEN name
                      ELSE ParseTeamDataOnlyRankSkipped(
                             [self EXCEPT !.f["name"] = name], data, i + 1)
             ELSE LET index == IF field \in DOMAIN ELEMENT_INDEX
                               THEN ELEMENT_INDEX[field] ELSE 0
                      value == ParseField(PARSING_SCHEME, data, field, index)
                  IN  ParseTeamDataOnlyRankSkipped(
                        [self EXCEPT !.f[field] = value], data, i + 1)

RECURSIVE ParseTeamData(_, _, _)
\* Team._parse_team_data: the loop over the fields, from the i-th on
ParseTeamData(self, data, i) ==
    IF i > Len(TeamFields) THEN self
    ELSE LET field == TeamFields[i]
         IN  IF field \in {"rank", "year"}
             THEN ParseTeamData(self, data, i + 1)
             ELSE IF field = "name"
             THEN LET name == ParseName(data)
                  IN  IF IsRaise(name) THEN name
                      ELSE ParseTeamData(
                             [self EXCEPT !.f["name"] = name], data, i + 1)
             ELSE LET index == IF field \in DOMAIN ELEMENT_INDEX
                               THEN ELEMENT_INDEX[field] ELSE 0
                      value == ParseField(PARSING_SCHEME, data, field, index)
                  IN  ParseTeamData(
                        [self EXCEPT !.f[field] = value], data, i + 1)

RECURSIVE ParseTeamDataIn(_, _, _, _)
\* Team._parse_team_data when self.__dict__ lists the fields in the order
\* order
ParseTeamDataIn(order, self, data, i) ==
    IF i > Len(order) THEN self
    ELSE LET field == order[i]
         IN  IF field \in {"rank", "year"}
             THEN ParseTeamDataIn(order, self, data, i + 1)
             ELSE IF field = "name"
             THEN LET name == ParseName(data)
                  IN  IF IsRaise(name) THEN name
                      ELSE ParseTeamDataIn(
                             order, [self EXCEPT !.f["name"] = name], data,
                             i + 1)
             ELSE LET index == IF field \in DOMAIN ELEMENT_INDEX
                               THEN ELEMENT_INDEX[field] ELSE 0
                      value == ParseField(PARSING_SCHEME, data, field, index)
                  IN  ParseTeamDataIn(
                        order, [self EXCEPT !.f[field] = value], data, i + 1)

\* Team.__init__ up to the parse: _year and _rank hold the arguments, every
\* other field None
NewTeam(rank, year) ==
    [t |-> "Team",
     f |-> [g \in {TeamFields[i] : i \in DOMAIN TeamFields} |->
              IF g = "year" THEN year
              ELSE IF g = "rank" THEN rank ELSE None]]

\* Team.__init__ with team_data, rank and year passed (as Teams does)
Team(data, rank, year) == ParseTeamData(NewTeam(rank, year), data, 1)

\* The season whose tables are read when no year is asked for
SeasonYear == StrV(<<"2", "0", "1", "9">>)

\* mlb_utils._retrieve_all_teams: the dictionary of the league's tables (a
\* team's row and rank under its abbreviation), and the year they are of
RetrieveAllTeams(year, page) ==
    [dict |-> page, year |-> IF year = None THEN SeasonYear ELSE year]

\* Team._retrieve_team_data: _year and _rank are set from what is retrieved
RetrieveTeamData(self, year, team_name, page) ==
    LET retrieved == RetrieveAllTeams(year, page)
    IN  IF team_name \notin DOMAIN retrieved.dict
        THEN Raise("KeyError")          \* team_data_dict[team_name]
        ELSE [t |-> "retrieved",
              self |-> [self EXCEPT
                          !.f["year"] = retrieved.year,
                          !.f["rank"] = retrieved.dict[team_name].rank],
              data |-> retrieved.dict[team_name].data]

\* Team.__init__ with team_name passed
TeamByName(team_name, rank, year, page) ==
    LET r == RetrieveTeamData(NewTeam(rank, year), year, team_name, page)
    IN  IF IsRaise(r) THEN r ELSE ParseTeamData(r.self, r.data, 1)

\* The raw field each sub-token accessor returns to the decorator.
\* interleague_wins is not an accessor of Team: it stands for a method given
\* to the decorator whose name has no entry in TEAM_ELEMENT.
SubTokenSource ==
    [home_wins |-> "home_record", home_losses |-> "home_record",
     away_wins |-> "away_record", away_losses |-> "away_record",
     interleague_wins |-> "interleague_record"]

\* A team's row of the league tables as it usually is
TypicalTeamData ==
    [anchors |-> <<StrV(<<"A", "s", "t", "r", "o", "s">>)>>,
     cells |-> [team_ID |-> <<StrV(<<"H", "O", "U">>)>>,
                R |-> <<StrV(<<"5", ".", "3">>), StrV(<<"8", "5", "3">>)>>,
                record_interleague |-> <<StrV(<<"5", "-", "3">>)>>,
                record_home |-> <<StrV(<<"5", "3", "-", "3", "5">>)>>,
                record_road |-> <<StrV(<<"3", "5", "-", "5", "3">>)>>]]

RecordChars == {"5", "3", "-", "x"}

MaxRecordLen == 4

\* What a record cell can hold: nothing, a text, or a value that is not a str
RecordCells ==
    {<<>>, <<IntV(7)>>}
        \cup {<<StrV(s)>> : s \in SeqsUpTo(RecordChars, MaxRecordLen)}

RecordLocators == {"record_interleague", "record_home", "record_road"}

TeamInit ==
    /\ \E loc \in RecordLocators, cell \in RecordCells :
          obj = Team([TypicalTeamData EXCEPT !.cells[loc] = cell],
                     IntV(1), StrV(<<"2", "0", "1", "9">>))
    /\ call = "init"
    /\ ret = None
    /\ fetched = <<>>

\* Reading one of the accessors under @mlb_int_property_decorator
TeamReadSubToken(field) ==
    /\ call' = field
    /\ ret' = MlbIntProperty(obj.f[SubTokenSource[field]], field)
    /\ UNCHANGED <<obj, fetched>>

TeamNext == \E field \in DOMAIN SubTokenSource : TeamReadSubToken(field)

SpecTeam == TeamInit /\ [][TeamNext]_vars

(***************************************************************************)
(* sportsreference/mlb/schedule.py: Game                                   *)
(***************************************************************************)
UpperCase ==
    <<"A", "B", "C", "D", "E", "F", "G", "H", "I", "J", "K", "L", "M",
      "N", "O", "P", "Q", "R", "S", "T", "U", "V", "W", "X", "Y", "Z">>

LowerCase ==
    <<"a", "b", "c", "d", "e", "f", "g", "h", "i", "j", "k", "l", "m",
      "n", "o", "p", "q", "r", "s", "t", "u", "v", "w", "x", "y", "z">>

\* str.lower()
Lower(s) ==
    [i \in DOMAIN s |->
        IF \E k \in DOMAIN UpperCase : UpperCase[k] = s[i]
        THEN LowerCase[CHOOSE k \in DOMAIN UpperCase : UpperCase[k] = s[i]]
        ELSE s[i]]

\* str.upper()
Upper(s) ==
    [i \in DOMAIN s |->
        IF \E k \in DOMAIN LowerCase : LowerCase[k] = s[i]
        THEN UpperCase[CHOOSE k \in DOMAIN LowerCase : LowerCase[k] = s[i]]
        ELSE s[i]]

\* The constants of sportsreference.constants
Constant(name) == [t |-> "const", n |-> 0, d |-> 0, s |-> <<name>>]

WIN == Constant("WIN")

LOSS == Constant("LOSS")

HOME == Constant("HOME")

AWAY == Constant("AWAY")

DAY == Constant("DAY")

NIGHT == Constant("NIGHT")

\* The fields of a Game, in the order __init__ declares them
GameFields ==
    <<"game", "date", "datetime", "boxscore", "location", "opponent_abbr",
      "result", "runs_scored", "runs_allowed", "innings", "record", "rank",
      "games_behind", "winner", "loser", "save", "game_duration",
      "day_or_night", "attendance", "streak", "year">>

GameFieldSet == {GameFields[i] : i \in DOMAIN GameFields}

\* The fields _parse_game_data reads through utils._parse_field
GameParsedFields == GameFieldSet \ {"datetime", "year", "boxscore"}

\* constants.SCHEDULE_SCHEME: the locator of each field (here its name)
SCHEDULE_SCHEME == [g \in GameParsedFields |-> g]

\* re.sub(r'.*/boxes/', '', s): s after the last occurrence of /boxes/
AfterBoxes(s) ==
    LET pat == <<"/", "b", "o", "x", "e", "s", "/">>
        at == {i \in DOMAIN s : OccursAt(s, pat, i)}
    IN  IF at = {} THEN s
        ELSE Slice(s, (CHOOSE i \in at : \A j \in at : i >= j) + Len(pat),
                   Len(s))

\* re.sub(r'\.shtml.*', '', s): s before the first occurrence of .shtml
BeforeShtml(s) ==
    LET pat == <<".", "s", "h", "t", "m", "l">>
        at == {i \in DOMAIN s : OccursAt(s, pat, i)}
    IN  IF at = {} THEN s
        ELSE Slice(s, 1, (CHOOSE i \in at : \A j \in at : i <= j) - 1)

\* Game._parse_boxscore: data.boxscore is str() of the row's boxscore cell,
\* '' when the row has none
ParseBoxscore(data) == StrV(BeforeShtml(AfterBoxes(data.boxscore)))

RECURSIVE ParseGameData(_, _, _)
\* Game._parse_game_data: the loop over the fields, from the i-th on
ParseGameData(self, data, i) ==
    IF i > Len(GameFields) THEN self
    ELSE LET field == GameFields[i]
         IN  IF field \in {"datetime", "year"}
             THEN ParseGameData(self, data, i + 1)
             ELSE IF field = "boxscore"
             THEN ParseGameData(
                    [self EXCEPT !.f["boxscore"] = ParseBoxscore(data)],
                    data, i + 1)
             ELSE ParseGameData(
                    [self EXCEPT !.f[field] =
                        ParseField(SCHEDULE_SCHEME, data, field, 0)],
                    data, i + 1)

\* Game.__init__
Game(data, year) ==
    ParseGameData(
        [t |-> "Game",
         f |-> [g \in GameFieldSet |-> IF g = "year" THEN year ELSE None]],
        data, 1)

\* `not x` of a str or None
Falsy(v) == v.t = "None" \/ (v.t = "str" /\ v.s = <<>>)

GameGame(g) == PyInt(g.game)

\* a mutant: anything but an empty or absent marker is away
GameLocationAnyMarker(g) == IF Falsy(g.location) THEN HOME ELSE AWAY

GameLocation(g) == IF g.location = StrV(<<"@">>) THEN AWAY ELSE HOME

\* a mutant: the default is WIN
GameResultDefaultsToWin(g) ==
    IF ~IsStr(g.result) THEN Raise("AttributeError")
    ELSE IF Lower(g.result.s) = <<"l">> THEN LOSS ELSE WIN

GameResult(g) ==
    IF ~IsStr(g.result) THEN Raise("AttributeError")   \* None has no .lower
    ELSE IF Lower(g.result.s) = <<"w">> THEN WIN ELSE LOSS

GameRunsScored(g) == PyInt(g.runs_scored)

GameRunsAllowed(g) == PyInt(g.runs_allowed)

\* a mutant: no default, the text is always converted
GameInningsNoDefault(g) == PyInt(g.innings)

GameInnings(g) == IF Falsy(g.innings) THEN IntV(9) ELSE PyInt(g.innings)

GameRank(g) == PyInt(g.rank)

RECURSIVE SubUp(_)
\* re.sub('up *', '', s): every "up" and the spaces after it removed
SubUp(s) ==
    IF s = <<>> THEN <<>>
    ELSE IF OccursAt(s, <<"u", "p">>, 1)
    THEN LET rest == Slice(s, 3, Len(s))
             other == {i \in DOMAIN rest : rest[i] # " "}
             next == IF other = {} THEN Len(rest) + 1
                     ELSE CHOOSE i \in other : \A j \in other : i <= j
         IN  SubUp(Slice(rest, next, Len(rest)))
    ELSE <<s[1]>> \o SubUp(Tail(s))

\* x * -1.0
Negated(v) == IF IsRaise(v) THEN v ELSE FloatV(0 - v.n, v.d)

\* a mutant: the lead of an "up N" text is returned unsigned
GameGamesBehindUnsigned(g) ==
    IF ~IsStr(g.games_behind) THEN Raise("AttributeError")
    ELSE LET low == Lower(g.games_behind.s)
         IN  IF Contains(low, <<"u", "p">>)
             THEN PyFloat(StrV(SubUp(low)))
             ELSE IF Contains(low, <<"t", "i", "e", "d">>)
             THEN FloatV(0, 0)
             ELSE PyFloat(g.games_behind)

GameGamesBehind(g) ==
    IF ~IsStr(g.games_behind) THEN Raise("AttributeError")
    ELSE LET low == Lower(g.games_behind.s)
         IN  IF Contains(low, <<"u", "p">>)
             THEN Negated(PyFloat(StrV(SubUp(low))))
             ELSE IF Contains(low, <<"t", "i", "e", "d">>)
             THEN FloatV(0, 0)
             ELSE PyFloat(g.games_behind)

GameSave(g) == IF g.save = StrV(<<>>) THEN None ELSE g.save

GameDayOrNight(g) ==
    IF ~IsStr(g.day_or_night) THEN Raise("AttributeError")
    ELSE IF Lower(g.day_or_night.s) = <<"n">> THEN NIGHT ELSE DAY

\* a mutant: the commas are left in the text
GameAttendanceKeepsCommas(g) ==
    IF ~IsStr(g.attendance) THEN Raise("AttributeError")
    ELSE PyInt(g.attendance)

GameAttendance(g) ==
    IF ~IsStr(g.attendance) THEN Raise("AttributeError")
    ELSE PyInt(StrV(Replace(g.attendance.s, ",")))

\* An exception of type e with the message msg
RaiseMsg(e, msg) == [t |-> "raise", n |-> 0, d |-> 0, s |-> <<e, msg>>]

\* datetime(year, month, day, hour): the calendar date in n, the time of day
\* in d
DateTimeV(year, month, day, hour) ==
    [t |-> "datetime", n |-> (year * 100 + month) * 100 + day, d |-> hour,
     s |-> <<>>]

\* datetime.year, .month and .day
YearOf(v) == v.n \div 10000

MonthOf(v) == (v.n \div 100) % 100

DayOf(v) == v.n % 100

\* The names %A matches, without regard to case
Weekdays ==
    <<<<"m", "o", "n", "d", "a", "y">>, <<"t", "u", "e", "s", "d", "a", "y">>,
      <<"w", "e", "d", "n", "e", "s", "d", "a", "y">>, <<"t", "h", "u", "r",
            "s", "d", "a", "y">>,
      <<"f", "r", "i", "d", "a", "y">>, <<"s", "a", "t", "u", "r", "d", "a",
            "y">>,
      <<"s", "u", "n", "d", "a", "y">>>>

\* The names %b matches, without regard to case
Months ==
    <<<<"j", "a", "n">>, <<"f", "e", "b">>, <<"m", "a", "r">>, <<"a", "p",
          "r">>,
      <<"m", "a", "y">>, <<"j", "u", "n">>, <<"j", "u", "l">>, <<"a", "u",
            "g">>,
      <<"s", "e", "p">>, <<"o", "c", "t">>, <<"n", "o", "v">>, <<"d", "e",
            "c">>>>

\* The first place from i on that holds no whitespace (\s+ of the pattern)
SkipSpaces(s, i) ==
    LET other == {j \in i..Len(s) : ~IsSpace(s[j])}
    IN  IF other = {} THEN (IF i > Len(s) THEN i ELSE Len(s) + 1)
        ELSE CHOOSE j \in other : \A k \in other : j <= k

\* The first place from i on that holds no digit
SkipDigits(s, i) ==
    LET other == {j \in i..Len(s) : ~IsDigit(s[j])}
    IN  IF other = {} THEN (IF i > Len(s) THEN i ELSE Len(s) + 1)
        ELSE CHOOSE j \in other : \A k \in other : j <= k

\* The days of a month of the proleptic Gregorian calendar
DaysIn(year, month) ==
    IF month = 2
    THEN (IF year % 4 = 0 /\ (year % 100 # 0 \/ year % 400 = 0)
          THEN 29 ELSE 28)
    ELSE IF month \in {4, 6, 9, 11} THEN 30 ELSE 31

\* datetime.strptime(s, '%A, %b %d %Y'): a weekday name, a comma, a month
\* abbreviation, a day of one or two digits and a year of four digits, with
\* whitespace where the format has a blank, and nothing after the year.  The
\* weekday is not checked against the date; the time of day is midnight.
Strptime(s) ==
    LET low == Lower(s)
        days == {k \in DOMAIN Weekdays : OccursAt(low, Weekdays[k], 1)}
        comma == IF days = {} THEN 0
                 ELSE Len(Weekdays[CHOOSE k \in days : TRUE]) + 1
        m0 == SkipSpaces(low, comma + 1)
        months == {k \in DOMAIN Months : OccursAt(low, Months[k], m0)}
        d0 == SkipSpaces(low, m0 + 3)
        d1 == SkipDigits(low, d0)
        y0 == SkipSpaces(low, d1)
        y1 == SkipDigits(low, y0)
        day == DigitsVal(Slice(low, d0, d1 - 1))
        year == DigitsVal(Slice(low, y0, y0 + 3))
        month == CHOOSE k \in months : TRUE
    IN  IF ~(/\ days # {}
             /\ comma <= Len(low) /\ low[comma] = ","
             /\ m0 > comma + 1
             /\ months # {}
             /\ d0 > m0 + 3
             /\ d1 - d0 \in {1, 2} /\ day \in 1..31
             /\ y0 > d1
             /\ y1 - y0 >= 4)
        THEN RaiseMsg("ValueError", "does not match format")
        ELSE IF y0 + 4 # Len(low) + 1
        THEN RaiseMsg("ValueError", "unconverted data remains")
        ELSE IF year < 1
        THEN RaiseMsg("ValueError", "year is out of range")
        ELSE IF day > DaysIn(year, month)
        THEN RaiseMsg("ValueError", "day is out of range for month")
        ELSE DateTimeV(year, month, day, 0)

\* Game.datetime
GameDatetime(g) == Strptime(PyStr(g.date).s \o <<" ">> \o PyStr(g.year).s)

\* The accessors that return the raw field as it is
GamePlainAccessors ==
    {"date", "opponent_abbr", "record", "winner", "loser", "game_duration",
     "streak"}

\* The accessors that convert the raw field to a number
GameNumericAccessors ==
    {"game", "runs_scored", "runs_allowed", "innings", "rank",
     "games_behind", "attendance"}

GameAccessors ==
    GamePlainAccessors \cup GameNumericAccessors
        \cup {"datetime", "location", "result", "save", "day_or_night"}

\* Reading accessor a of game g
GameRead(g, a) ==
    CASE a = "game" -> GameGame(g)
      [] a = "datetime" -> GameDatetime(g)
      [] a = "location" -> GameLocation(g)
      [] a = "result" -> GameResult(g)
      [] a = "runs_scored" -> GameRunsScored(g)
      [] a = "runs_allowed" -> GameRunsAllowed(g)
      [] a = "innings" -> GameInnings(g)
      [] a = "rank" -> GameRank(g)
      [] a = "games_behind" -> GameGamesBehind(g)
      [] a = "save" -> GameSave(g)
      [] a = "day_or_night" -> GameDayOrNight(g)
      [] a = "attendance" -> GameAttendance(g)
      [] OTHER -> g[a]

\* A row of the schedule table as it usually is
TypicalGameData ==
    [boxscore |-> <<"<", "a", " ", "h", "r", "e", "f", "=", "\"", "/", "b",
          "o", "x", "e", "s", "/", "H", "O", "U", "/", "H", "O", "U", "2",
                "0", "1", "9", "0", "4", "0", "5", "0", ".", "s", "h", "t",
                      "m", "l", "\"", ">", "b", "o", "x", "s", "c", "o", "r",
                            "e", "<", "/", "a", ">">>,
     cells |-> [game |-> <<StrV(<<"7">>)>>, date |-> <<StrV(<<"F", "r", "i",
           "d", "a", "y", ",", " ", "A", "p", "r", " ", "5">>)>>,
                location |-> <<StrV(<<"@">>)>>,
                      opponent_abbr |-> <<StrV(<<"N", "Y", "Y">>)>>,
                result |-> <<StrV(<<"W">>)>>,
                      runs_scored |-> <<StrV(<<"5">>)>>,
                runs_allowed |-> <<StrV(<<"3">>)>>, innings |-> <<StrV(<<>>)>>,
                record |-> <<StrV(<<"5", "-", "3">>)>>,
                      rank |-> <<StrV(<<"1">>)>>,
                games_behind |-> <<StrV(<<"T", "i", "e", "d">>)>>,
                      winner |-> <<StrV(<<"C", "o", "l", "e">>)>>,
                loser |-> <<StrV(<<"P", "a", "x", "t", "o", "n">>)>>,
                      save |-> <<StrV(<<>>)>>,
                game_duration |-> <<StrV(<<"3", ":", "0", "5">>)>>,
                      day_or_night |-> <<StrV(<<"N">>)>>,
                attendance |-> <<StrV(<<"4", "1", ",", "2", "1", "2">>)>>,
                      streak |-> <<StrV(<<"+", "+">>)>>]]

\* The pieces a games-behind text is put together from
GamesBehindPieces ==
    {<<"T", "i", "e", "d">>, <<"t", "i", "e", "d">>, <<"U", "p">>, <<"u",
          "p">>, <<" ">>, <<"2", ".", "5">>, <<"3">>}

MaxPieces == 3

RECURSIVE Joined(_)
\* The concatenation of a sequence of texts
Joined(parts) ==
    IF parts = <<>> THEN <<>> ELSE Head(parts) \o Joined(Tail(parts))

GamesBehindTexts ==
    {Joined(parts) : parts \in SeqsUpTo(GamesBehindPieces, MaxPieces)}

\* The texts a cell can hold, for the fields whose accessor looks at the text
GameTexts(field) ==
    CASE field = "games_behind" -> GamesBehindTexts
      [] field = "result" ->
            {<<>>, <<"W">>, <<"L">>, <<"w">>, <<"l">>, <<"T">>, <<"W", "-",
                  "w", "o">>, <<"L", "-", "w", "o">>}
      [] field = "date" ->
            {<<>>, <<"x">>,
             <<"F", "r", "i", "d", "a", "y", ",", " ", "A", "p", "r", " ", "5">>,
             <<"f", "r", "i", "d", "a", "y", ",", " ", " ", "a", "p", "r", " ", "0", "5">>,
             <<"S", "a", "t", "u", "r", "d", "a", "y", ",", " ", "A", "p",
               "r", " ", "2", "0", " ", "(", "1", ")">>,
             <<"F", "r", "i", "d", "a", "y", ",", " ", "F", "e", "b", " ", "2", "9">>,
             <<"A", "p", "r", " ", "5">>}
      [] field = "location" -> {<<>>, <<"@">>, <<"N">>, <<"@", "@">>}
      [] field = "day_or_night" -> {<<>>, <<"D">>, <<"N">>, <<"n">>, <<"d">>}
      [] field = "attendance" -> {<<>>, <<"4", "1", ",", "2", "1", "2">>,
            <<"4", "1", "2", "1", "2">>, <<"x">>, <<",">>, <<"7", ",">>,
            <<",", "0", "7">>, <<"1", ",", ",", "2">>, <<"1", ".", "2">>}
      [] field \in {"game", "runs_scored", "runs_allowed", "innings", "rank"}
            -> {<<>>, <<"7">>, <<"1", "0">>, <<"x">>}
      [] OTHER -> {<<>>, <<"x">>}

MaxAbsent == 2

\* The rows given to Game: the usual row with some cells missing, or with
\* the text of one cell replaced.
GameRows ==
    {[boxscore |-> IF "boxscore" \in gone THEN <<>>
                   ELSE TypicalGameData.boxscore,
      cells |-> [g \in GameParsedFields |->
                   IF g \in gone THEN <<>> ELSE TypicalGameData.cells[g]]] :
        gone \in {x \in SUBSET (GameParsedFields \cup {"boxscore"}) :
                    Cardinality(x) <= MaxAbsent}}
    \cup
    UNION {{[TypicalGameData EXCEPT !.cells[g] = <<StrV(text)>>] :
               text \in GameTexts(g)} : g \in GameParsedFields}

GameInit ==
    /\ \E row \in GameRows : obj = Game(row, StrV(<<"2", "0", "1", "9">>))
    /\ call = "init"
    /\ ret = None
    /\ fetched = <<>>

\* a mutant: the value read is kept in the raw field
GameReadAccessorKeepsValue(a) ==
    /\ call' = a
    /\ ret' = GameRead(obj.f, a)
    /\ obj' = [obj EXCEPT !.f[a] = IF IsRaise(ret') THEN @ ELSE ret']
    /\ UNCHANGED fetched

\* Reading an accessor of the game
GameReadAccessor(a) ==
    /\ call' = a
    /\ ret' = GameRead(obj.f, a)
    /\ UNCHANGED <<obj, fetched>>

GameNext == \E a \in GameAccessors : GameReadAccessor(a)

SpecGame == GameInit /\ [][GameNext]_vars

(***************************************************************************)
(* mlb/teams.py: Teams                                                     *)
(***************************************************************************)
RECURSIVE InstantiateTeams(_, _, _)
\* Teams._instantiate_teams: one Team per value of the dictionary, in its
\* order, appended to self._teams.  id tells the Team objects apart: it is
\* the place of the object in the order of creation.
InstantiateTeams(self, values, year) ==
    IF values = <<>> THEN self
    ELSE LET team == Team(Head(values).data, Head(values).rank, year)
         IN  IF IsRaise(team) THEN team
             ELSE InstantiateTeams(
                    [self EXCEPT !.teams =
                        Append(@, [t |-> "Team", f |-> team.f,
                                   id |-> Len(self.teams) + 1])],
                    Tail(values), year)

\* A dictionary, as the sequence of its values in its iteration order
DictV(values) == [t |-> "dict", n |-> 0, d |-> 0, s |-> values]

\* Teams.__init__, on what _retrieve_all_teams returns: the dictionary (or
\* None) and the year.  Nothing is instantiated when the dictionary is None
\* or empty.
Teams(team_data_dict, year) ==
    LET self == [t |-> "Teams", teams |-> <<>>]
    IN  IF team_data_dict = None \/ team_data_dict.s = <<>> THEN self
        ELSE InstantiateTeams(self, team_data_dict.s, year)

RECURSIVE GetItemFrom(_, _, _)
\* The loop of Teams.__getitem__, from the i-th team on
GetItemFrom(teams, abbreviation, i) ==
    IF i > Len(teams)
    THEN Raise("ValueError")        \* Team abbreviation ... not found
    ELSE IF ~IsStr(teams[i].f.abbreviation)
    THEN Raise("AttributeError")    \* None has no .upper
    ELSE IF Upper(teams[i].f.abbreviation.s) = Upper(abbreviation)
    THEN teams[i]
    ELSE GetItemFrom(teams, abbreviation, i + 1)

\* Teams.__getitem__
TeamsGetItem(self, abbreviation) == GetItemFrom(self.teams, abbreviation, 1)

\* Teams.__call__
TeamsCall(self, abbreviation) == TeamsGetItem(self, abbreviation)

\* list(iter(teams)): the teams iteration yields, in its order
TeamsIter(self) == ListV(self.teams)

\* Teams.__len__
TeamsLen(self) == IntV(Len(self.teams))

\* The accessors Team.dataframe reads into its row
TeamDataframeFields ==
    {"abbreviation", "name", "home_record", "away_record",
     "interleague_record"} \cup DOMAIN TEAM_ELEMENT

\* Team.dataframe: pd.DataFrame([fields_to_include],
\* index=[self._abbreviation]); an accessor that raises ends the read
TeamDataframe(self) ==
    LET fields_to_include ==
            [a \in TeamDataframeFields |->
                IF a \in DOMAIN TEAM_ELEMENT
                THEN MlbIntProperty(self.f[SubTokenSource[a]], a)
                ELSE self.f[a]]
        raised == {a \in TeamDataframeFields : IsRaise(fields_to_include[a])}
    IN  IF raised # {}
        THEN fields_to_include[CHOOSE a \in raised : TRUE]
        ELSE [t |-> "DataFrame", index |-> <<self.f.abbreviation>>,
              rows |-> <<fields_to_include>>]

\* pd.concat(frames): the rows of the frames one after the other under
\* their own index labels; pandas refuses an empty list
RECURSIVE Concat(_, _)

Concat(frames, i) ==
    IF i > Len(frames) THEN [t |-> "DataFrame", index |-> <<>>, rows |-> <<>>]
    ELSE LET rest == Concat(frames, i + 1)
         IN  [t |-> "DataFrame", index |-> frames[i].index \o rest.index,
              rows |-> frames[i].rows \o rest.rows]

PdConcat(frames) ==
    IF frames = <<>>
    THEN RaiseMsg("ValueError", "No objects to concatenate")
    ELSE Concat(frames, 1)

\* Teams.dataframes
TeamsDataframes(self) ==
    LET frames == [i \in DOMAIN self.teams |-> TeamDataframe(self.teams[i])]
        raised == {i \in DOMAIN frames : IsRaise(frames[i])}
    IN  IF raised # {}
        THEN frames[CHOOSE i \in raised : \A j \in raised : i <= j]
        ELSE PdConcat(frames)

\* What the abbreviation locator finds in a team's row: nothing, or a text
AbbreviationCells == {<<>>, <<StrV(<<"H", "O", "U">>)>>, <<StrV(<<"h", "o",
      "u">>)>>, <<StrV(<<"N", "Y", "Y">>)>>}

\* The keys looked up
LookupKeys == {<<"H", "O", "U">>, <<"h", "o", "u">>, <<"H", "o", "u">>,
      <<"N", "Y", "Y">>, <<"n", "y", "y">>, <<"B", "O", "S">>}

MaxTeams == 3

\* What the anchor selector finds in a team's row: nothing, or the anchor
AnchorCells == {<<>>, TypicalTeamData.anchors}

\* What _retrieve_all_teams returns: None, or a dictionary of up to MaxTeams
\* rows, each with its rank
TeamDicts ==
    {None} \cup
    {DictV([i \in DOMAIN rows |->
              [data |-> [TypicalTeamData EXCEPT
                           !.cells["team_ID"] = rows[i][1],
                           !.anchors = rows[i][2]],
               rank |-> IntV(Len(rows) + 1 - i)]]) :
        rows \in SeqsUpTo(AbbreviationCells \X AnchorCells, MaxTeams)}

\* Teams(year): obj is the collection, or the exception that has left
\* the constructor
TeamsInit ==
    /\ \E team_data_dict \in TeamDicts :
          /\ obj = Teams(team_data_dict, SeasonYear)
          /\ call = [op |-> "init", key |-> team_data_dict]
    /\ ret = None
    /\ fetched = <<"teams">>

TeamsLookup(key) ==
    /\ obj.t = "Teams"
    /\ call' = [op |-> "getitem", key |-> key]
    /\ ret' = TeamsGetItem(obj, key)
    /\ UNCHANGED <<obj, fetched>>

TeamsLookupByCall(key) ==
    /\ obj.t = "Teams"
    /\ call' = [op |-> "call", key |-> key]
    /\ ret' = TeamsCall(obj, key)
    /\ UNCHANGED <<obj, fetched>>

\* a mutant: the iteration hands the list over and leaves none behind
TeamsIterateDrains ==
    /\ obj.t = "Teams"
    /\ call' = [op |-> "iter", key |-> <<>>]
    /\ ret' = TeamsIter(obj)
    /\ obj' = [obj EXCEPT !.teams = <<>>]
    /\ UNCHANGED fetched

TeamsIterate ==
    /\ obj.t = "Teams"
    /\ call' = [op |-> "iter", key |-> <<>>]
    /\ ret' = TeamsIter(obj)
    /\ UNCHANGED <<obj, fetched>>

TeamsLength ==
    /\ obj.t = "Teams"
    /\ call' = [op |-> "len", key |-> <<>>]
    /\ ret' = TeamsLen(obj)
    /\ UNCHANGED <<obj, fetched>>

TeamsExport ==
    /\ obj.t = "Teams"
    /\ call' = [op |-> "dataframes", key |-> <<>>]
    /\ ret' = TeamsDataframes(obj)
    /\ UNCHANGED <<obj, fetched>>

TeamsNext ==
    \/ \E key \in LookupKeys : TeamsLookup(key)
    \/ \E key \in LookupKeys : TeamsLookupByCall(key)
    \/ TeamsIterate
    \/ TeamsLength
    \/ TeamsExport

SpecTeams == TeamsInit /\ [][TeamsNext]_vars

(***************************************************************************)
(* sportsreference/mlb/schedule.py: Schedule                               *)
(***************************************************************************)
\* str(item) of a row of the table, as far as the row's markup goes: its
\* opening tag and the markup of its boxscore cell (the texts of the other
\* cells hold no markup)
RowMarkup(item) == item.tag \o item.boxscore

RECURSIVE PullScheduleKeepsHeaders(_, _, _)
\* a mutant: a Game is made of the header rows too
PullScheduleKeepsHeaders(self, schedule, year) ==
    IF schedule = <<>> THEN self
    ELSE PullScheduleKeepsHeaders(
           [self EXCEPT !.games =
               Append(@, [t |-> "Game", f |-> Game(Head(schedule), year).f,
                          id |-> Len(self.games) + 1])],
           Tail(schedule), year)

RECURSIVE PullScheduleFirstOfDate(_, _, _)
\* a mutant: a row whose date a game of the schedule already has is left out
PullScheduleFirstOfDate(self, schedule, year) ==
    IF schedule = <<>> THEN self
    ELSE IF Contains(RowMarkup(Head(schedule)), <<"c", "l", "a", "s", "s",
          "=", "\"", "t", "h", "e", "a", "d", "\"">>)
    THEN PullScheduleFirstOfDate(self, Tail(schedule), year)
    ELSE IF \E i \in DOMAIN self.games :
                self.games[i].f["date"] = Game(Head(schedule), year).f["date"]
    THEN PullScheduleFirstOfDate(self, Tail(schedule), year)
    ELSE PullScheduleFirstOfDate(
           [self EXCEPT !.games =
               Append(@, [t |-> "Game", f |-> Game(Head(schedule), year).f,
                          id |-> Len(self.games) + 1])],
           Tail(schedule), year)

RECURSIVE PullSchedule(_, _, _)
\* The loop of Schedule._pull_schedule over the rows _get_stats_table
\* returns.  id tells the Game objects apart: it is the place of the object
\* in the order of creation.
PullSchedule(self, schedule, year) ==
    IF schedule = <<>> THEN self
    ELSE IF Contains(RowMarkup(Head(schedule)), <<"c", "l", "a", "s", "s",
          "=", "\"", "t", "h", "e", "a", "d", "\"">>)
    THEN PullSchedule(self, Tail(schedule), year)
    ELSE PullSchedule(
           [self EXCEPT !.games =
               Append(@, [t |-> "Game", f |-> Game(Head(schedule), year).f,
                          id |-> Len(self.games) + 1])],
           Tail(schedule), year)

\* Schedule.__init__ with a year, on the rows of the team's schedule table
Schedule(schedule, year) ==
    PullSchedule([t |-> "Schedule", games |-> <<>>], schedule, year)

\* Schedule.__getitem__
ScheduleGetItem(self, index) == PyIndex(self.games, index)

RECURSIVE ScheduleCallFrom(_, _, _)
\* The loop of Schedule.__call__, from the i-th game on
ScheduleCallFrom(games, date, i) ==
    IF i > Len(games)
    THEN RaiseMsg("ValueError", "No games found for requested date")
    ELSE LET datetime == GameDatetime(games[i].f)
         IN  IF IsRaise(datetime) THEN datetime
             ELSE IF /\ YearOf(datetime) = YearOf(date)
                     /\ MonthOf(datetime) = MonthOf(date)
                     /\ DayOf(datetime) = DayOf(date)
             THEN games[i]
             ELSE ScheduleCallFrom(games, date, i + 1)

\* Schedule.__call__
ScheduleCall(self, date) == ScheduleCallFrom(self.games, date, 1)

\* Schedule.__repr__
ScheduleRepr(self) == self.games

\* list(iter(schedule)): the games iteration yields, in its order
ScheduleIter(self) == ListV(ScheduleRepr(self))

\* Schedule.__len__
ScheduleLen(self) == IntV(Len(ScheduleRepr(self)))

\* A header row of the table
HeaderRow ==
    [tag |-> <<"<", "t", "r", " ", "c", "l", "a", "s", "s", "=", "\"", "t",
          "h", "e", "a", "d", "\"", ">">>,
     boxscore |-> <<>>,
     cells |-> [g \in GameParsedFields |-> <<>>]]

\* What the date cell of a game's row can hold: nothing, a date, the date of
\* a game of a doubleheader
ScheduleDateCells ==
    {<<>>,
     <<StrV(<<"M", "o", "n", "d", "a", "y", ",", " ", "A", "p", "r", " ",
           "1">>)>>,
     <<StrV(<<"T", "u", "e", "s", "d", "a", "y", ",", " ", "A", "p", "r",
           " ", "2">>)>>,
     <<StrV(<<"M", "o", "n", "d", "a", "y", ",", " ", "A", "p", "r", " ",
           "1", " ", "(", "1", ")">>)>>}

\* The rows of a game
GameRowsOfSchedule ==
    {[tag |-> <<"<", "t", "r", ">">>,
      boxscore |-> TypicalGameData.boxscore,
      cells |-> [TypicalGameData.cells EXCEPT !["date"] = cell]] :
        cell \in ScheduleDateCells}

MaxRows == 3

\* The tables _get_stats_table returns
ScheduleTables == SeqsUpTo(GameRowsOfSchedule \cup {HeaderRow}, MaxRows)

\* The datetimes looked up: three days of the season and a day of another
\* year, at midnight and in the evening
QueryDates ==
    {DateTimeV(y[1], y[2], y[3], hour) :
        y \in {<<2019, 4, 1>>, <<2019, 4, 2>>, <<2019, 4, 3>>, <<2018, 4, 1>>},
        hour \in {0, 19}}

ScheduleInit ==
    /\ \E table \in ScheduleTables :
          /\ obj = Schedule(table, StrV(<<"2", "0", "1", "9">>))
          /\ call = [op |-> "init", key |-> table]
    /\ ret = None
    /\ fetched = <<"schedule">>

ScheduleLookup(date) ==
    /\ call' = [op |-> "call", key |-> date]
    /\ ret' = ScheduleCall(obj, date)
    /\ UNCHANGED <<obj, fetched>>

ScheduleIndex(index) ==
    /\ call' = [op |-> "getitem", key |-> index]
    /\ ret' = ScheduleGetItem(obj, index)
    /\ UNCHANGED <<obj, fetched>>

ScheduleIterate ==
    /\ call' = [op |-> "iter", key |-> 0]
    /\ ret' = ScheduleIter(obj)
    /\ UNCHANGED <<obj, fetched>>

ScheduleLength ==
    /\ call' = [op |-> "len", key |-> 0]
    /\ ret' = ScheduleLen(obj)
    /\ UNCHANGED <<obj, fetched>>

ScheduleNext ==
    \/ \E date \in QueryDates : ScheduleLookup(date)
    \/ \E index \in (0 - MaxRows - 1)..(MaxRows + 1) : ScheduleIndex(index)
    \/ ScheduleIterate
    \/ ScheduleLength

SpecSchedule == ScheduleInit /\ [][ScheduleNext]_vars

(***************************************************************************)
(* Either collection: Teams or a Schedule                                  *)
(***************************************************************************)
CollectionInit == ScheduleInit \/ TeamsInit

CollectionNext ==
    \/ obj.t = "Schedule" /\ ScheduleNext
    \/ obj.t = "Teams" /\ TeamsNext

SpecCollection == CollectionInit /\ [][CollectionNext]_vars

(***************************************************************************)
(* Construction of a Team or a Game from a fragment, and reads of it       *)
(***************************************************************************)
\* Reading accessor a of a Team
TeamRead(self, a) ==
    IF a \in DOMAIN TEAM_ELEMENT
    THEN MlbIntProperty(self.f[SubTokenSource[a]], a)
    ELSE self.f[a]

\* The accessors of a Team that the model reads
TeamAccessors == {"abbreviation", "name"} \cup DOMAIN TEAM_ELEMENT

\* What a team's row can lack: its anchor, and the cells of its locators
TeamParts == {"a", "team_ID", "R", "record_interleague", "record_home",
              "record_road"}

\* The rows given to Team: the usual row without some of its parts
TeamFragments ==
    {[anchors |-> IF "a" \in gone THEN <<>> ELSE TypicalTeamData.anchors,
      cells |-> [loc \in DOMAIN TypicalTeamData.cells |->
                   IF loc \in gone THEN <<>>
                   ELSE TypicalTeamData.cells[loc]]] :
        gone \in SUBSET TeamParts}

\* The rank and year arguments
RankArguments == {None, IntV(1), IntV(5)}

YearArguments == {None, StrV(<<"2", "0", "1", "9">>), StrV(<<"2", "0", "1",
      "8">>)}

\* The dictionaries of the league's tables: one team, of rank 3
LeaguePages ==
    {[HOU |-> [data |-> data, rank |-> IntV(3)]] : data \in TeamFragments}

\* What a game's row can lack, of the cells the model takes away
GameParts == {"boxscore", "date", "game", "result", "innings", "save"}

\* The rows given to Game: the usual row without some of its parts
GameFragments ==
    {[boxscore |-> IF "boxscore" \in gone THEN <<>>
                   ELSE TypicalGameData.boxscore,
      cells |-> [g \in GameParsedFields |->
                   IF g \in gone THEN <<>> ELSE TypicalGameData.cells[g]]] :
        gone \in SUBSET GameParts}

BuildInit ==
    /\ obj = None
    /\ call = [op |-> "none", args |-> None]
    /\ ret = None
    /\ fetched = <<>>

\* Team(team_data=data, rank=rank, year=year)
BuildTeam(data, rank, year) ==
    /\ obj = None
    /\ obj' = Team(data, rank, year)
    /\ call' = [op |-> "Team",
                args |-> [data |-> data, rank |-> rank, year |-> year]]
    /\ ret' = obj'
    /\ UNCHANGED fetched

\* Team(team_name, rank=rank, year=year)
BuildTeamByName(team_name, rank, year, page) ==
    /\ obj = None
    /\ obj' = TeamByName(team_name, rank, year, page)
    /\ call' = [op |-> "TeamByName",
                args |-> [team_name |-> team_name, rank |-> rank,
                          year |-> year, page |-> page]]
    /\ ret' = obj'
    /\ fetched' = Append(fetched, "teams")

\* Game(data, year)
BuildGame(data, year) ==
    /\ obj = None
    /\ obj' = Game(data, year)
    /\ call' = [op |-> "Game", args |-> [data |-> data, year |-> year]]
    /\ ret' = obj'
    /\ UNCHANGED fetched

\* Reading accessor a of the Team built
BuildReadTeam(a) ==
    /\ obj.t = "Team"
    /\ call' = [op |-> "read", args |-> a]
    /\ ret' = TeamRead(obj, a)
    /\ UNCHANGED <<obj, fetched>>

\* Reading accessor a of the Game built
BuildReadGame(a) ==
    /\ obj.t = "Game"
    /\ call' = [op |-> "read", args |-> a]
    /\ ret' = GameRead(obj.f, a)
    /\ UNCHANGED <<obj, fetched>>

BuildNext ==
    \/ \E data \in TeamFragments, rank \in RankArguments,
          year \in YearArguments : BuildTeam(data, rank, year)
    \/ \E team_name \in {"HOU", "NYY"}, rank \in RankArguments,
          year \in YearArguments, page \in LeaguePages :
            BuildTeamByName(team_name, rank, year, page)
    \/ \E data \in GameFragments, year \in YearArguments \ {None} :
          BuildGame(data, year)
    \/ \E a \in TeamAccessors : BuildReadTeam(a)
    \/ \E a \in GameAccessors : BuildReadGame(a)

SpecBuild == BuildInit /\ [][BuildNext]_vars

(***************************************************************************)
(* Accessors that build another object on each read: Team.schedule,        *)
(* Team.roster, Game.boxscore                                              *)
(***************************************************************************)
\* The accessors that construct a linked object
LinkedAccessors == {"schedule", "roster", "boxscore"}

\* The schedule tables the document provider may answer a request with
TeamSchedulePages ==
    {table \in ScheduleTables :
        /\ Len(table) <= 1
        /\ \A i \in DOMAIN table :
              table[i].cells["date"] \in {<<>>, TypicalGameData.cells["date"]}}

\* Team.schedule: Schedule(self._abbreviation, self._year), the table being
\* what the provider answers; _pull_schedule takes the current season for a
\* year that is not given
TeamSchedule(self, table) ==
    Schedule(table, IF Falsy(self.f["year"]) THEN SeasonYear
                    ELSE self.f["year"])

\* Team.roster: Roster(self._abbreviation, self._year)
TeamRoster(self) ==
    [t |-> "Roster", abbreviation |-> self.f["abbreviation"],
     year |-> self.f["year"]]

\* Game.boxscore: Boxscore(self._boxscore)
GameBoxscore(g) == [t |-> "Boxscore", uri |-> g.boxscore]

\* The reads of one object that the model follows
MaxFetches == 2

ReadTeamSchedule(table) ==
    /\ obj.t = "Team"
    /\ Len(fetched) < MaxFetches
    /\ call' = [op |-> "read", args |-> "schedule"]
    /\ ret' = TeamSchedule(obj, table)
    /\ fetched' = Append(fetched, "schedule")
    /\ UNCHANGED obj

ReadTeamRoster ==
    /\ obj.t = "Team"
    /\ Len(fetched) < MaxFetches
    /\ call' = [op |-> "read", args |-> "roster"]
    /\ ret' = TeamRoster(obj)
    /\ fetched' = Append(fetched, "roster")
    /\ UNCHANGED obj

\* a mutant: the Boxscore is built without a request to the provider
ReadGameBoxscoreNoRequest ==
    /\ obj.t = "Game"
    /\ Len(fetched) < MaxFetches
    /\ call' = [op |-> "read", args |-> "boxscore"]
    /\ ret' = GameBoxscore(obj.f)
    /\ UNCHANGED <<obj, fetched>>

ReadGameBoxscore ==
    /\ obj.t = "Game"
    /\ Len(fetched) < MaxFetches
    /\ call' = [op |-> "read", args |-> "boxscore"]
    /\ ret' = GameBoxscore(obj.f)
    /\ fetched' = Append(fetched, "boxscore")
    /\ UNCHANGED obj

LinkedInit == BuildInit \/ CollectionInit

LinkedNext ==
    \/ BuildNext
    \/ CollectionNext
    \/ \E table \in TeamSchedulePages : ReadTeamSchedule(table)
    \/ ReadTeamRoster
    \/ ReadGameBoxscore

SpecLinked == LinkedInit /\ [][LinkedNext]_vars

(***************************************************************************)
(* ncaab/player.py: AbstractPlayer.__init__ and _parse_player_data         *)
(***************************************************************************)
\* The attributes of a player in the order __init__ sets them
PlayerDictFields ==
    <<"player_data", "player_id", "name", "points", "field_goal_percentage">>

\* The attributes _parse_player_data passes over
PlayerSkippedFields ==
    {"player_id", "index", "most_recent_season", "player_data", "name",
     "height", "weight", "position"}

\* constants.PLAYER_SCHEME: the locator of each field
PLAYER_SCHEME == [points |-> "pts", field_goal_percentage |-> "fg_pct"]

\* AbstractPlayer._parse_value
ParseValue(stats, field) == ParseField(PLAYER_SCHEME, stats, field, 0)

\* a mutant: only the last season's value is kept
FieldStatsLastSeason(player_data, field) ==
    IF player_data.t = "dict"
    THEN IF player_data.s = <<>> THEN <<>>
         ELSE <<ParseValue(player_data.s[Len(player_data.s)].value.data,
                           field)>>
    ELSE <<ParseValue(player_data, field)>>

\* field_stats of one field: a value for each item of the dictionary in its
\* order, or the one value of a single fragment
FieldStats(player_data, field) ==
    IF player_data.t = "dict"
    THEN [i \in DOMAIN player_data.s |->
            ParseValue(player_data.s[i].value.data, field)]
    ELSE <<ParseValue(player_data, field)>>

RECURSIVE ParsePlayerData(_, _, _)

\* AbstractPlayer._parse_player_data: the loop over self.__dict__
ParsePlayerData(self, player_data, i) ==
    IF i > Len(PlayerDictFields) THEN self
    ELSE LET short_field == PlayerDictFields[i]
         IN  IF short_field \in PlayerSkippedFields
             THEN ParsePlayerData(self, player_data, i + 1)
             ELSE ParsePlayerData(
                    [self EXCEPT !.raw[short_field] =
                        FieldStats(player_data, short_field)],
                    player_data, i + 1)

\* AbstractPlayer.__init__; _index is set by the subclass, to index here
AbstractPlayer(player_data, index) ==
    ParsePlayerData([index |-> index, player_data |-> player_data,
                     raw |-> [f \in PlayerFields |-> None]],
                    player_data, 1)

\* The cells a season's fragment can have
PointsCells == {<<>>, <<StrV(<<"1", "2">>)>>, <<StrV(<<"7">>)>>}

PercentageCells == {<<>>, <<StrV(<<".", "5">>)>>}

\* A fragment of player statistics
PlayerFragments ==
    {[t |-> "str", cells |-> [pts |-> p, fg_pct |-> g]] :
        p \in PointsCells, g \in PercentageCells}

\* The keys of the seasons of a player, in the order of the dictionary
SeasonKeys == <<"2017-18", "2018-19", "2019-20", "Career">>

MaxSeasons == 3

\* The dictionaries season -> {'data': fragment} of a player
PlayerSeasons ==
    {DictV([i \in DOMAIN frags |->
              [key |-> SeasonKeys[i], value |-> [data |-> frags[i]]]]) :
        frags \in SeqsUpTo(PlayerFragments, MaxSeasons)}

\* A player built from the statistics of its seasons or from one fragment,
\* with the _index its subclass has set
SeasonsInit ==
    /\ \E player_data \in PlayerSeasons \cup PlayerFragments,
          index \in (0 - (MaxSeasons + 1))..(MaxSeasons + 1) :
          obj = AbstractPlayer(player_data, index)
    /\ call = "init"
    /\ ret = None
    /\ fetched = <<>>

SpecSeasons == SeasonsInit /\ [][PlayerNext]_vars

(***************************************************************************)
(* Reads of any entity: a player, a Team or a Game                         *)
(***************************************************************************)
\* The class of an entity
Kind(entity) == IF "t" \in DOMAIN entity THEN entity.t ELSE "Player"

EntityInit == PlayerInit \/ TeamInit \/ GameInit

EntityNext ==
    \/ Kind(obj) = "Player" /\ PlayerNext
    \/ Kind(obj) = "Team" /\ TeamNext
    \/ Kind(obj) = "Game" /\ GameNext

SpecEntity == EntityInit /\ [][EntityNext]_vars

(***************************************************************************)
(* Claims about the player coercion (SpecPlayer)                           *)
(***************************************************************************)
\* The raw element the decorator of the field last read has coerced
PlayerRawElem == obj.raw[call][obj.index + 1]

NoiseChars == {"%", ",", "+"}

\* Text that is no number whatever is cleaned from it: it has no digit, or a
\* character that no number holds.
NonNumericText(s) ==
    \/ \A i \in DOMAIN s : ~IsDigit(s[i])
    \/ \E i \in DOMAIN s :
          ~IsDigit(s[i]) /\ s[i] \notin {".", "-", " ", "_"} \cup NoiseChars

\* Decimal text: digits, a point, digits
DecimalText(s) ==
    \E k \in DOMAIN s :
        /\ s[k] = "."
        /\ k > 1 /\ k < Len(s)
        /\ AllDigits(Slice(s, 1, k - 1))
        /\ AllDigits(Slice(s, k + 1, Len(s)))

\* C2: integer and float coercion never raises, and yields None for a raw
\* element that is None, empty, non-numeric text or not a str; integer
\* coercion of decimal text ("1.2") yields None.
C2_CoercionYieldsNone ==
    call \in PlayerFields =>
        /\ ~IsRaise(ret)
        /\ ~IsStr(PlayerRawElem) => ret = None
        /\ (IsStr(PlayerRawElem) /\ NonNumericText(PlayerRawElem.s))
              => ret = None
        /\ (/\ call \in PlayerIntFields
            /\ IsStr(PlayerRawElem)
            /\ DecimalText(PlayerRawElem.s)) => ret = None

C2_Witness ==
    /\ call = "points"
    /\ PlayerRawElem = StrV(<<"1", ".", "2">>)
    /\ ret = None

\* The token with every '%', ',' and '+' removed and nothing else
Stripped(s) == SelectSeq(s, LAMBDA x : x \notin NoiseChars)

\* An integer literal: an optional '-' and digits
IntegerText(s) ==
    LET body == IF s # <<>> /\ s[1] = "-" THEN Tail(s) ELSE s
    IN  body # <<>> /\ AllDigits(body)

IntegerOf(s) ==
    IF s[1] = "-" THEN 0 - DigitsVal(Tail(s)) ELSE DigitsVal(s)

\* C3: coercion removes every '%', ',' and '+' and no other character before
\* it parses: a token that is an integer (a decimal) once they are removed
\* coerces to that integer (that decimal), "1,2" to 12.
C3_NoiseStripped ==
    (call \in PlayerFields /\ IsStr(PlayerRawElem)) =>
        LET clean == Stripped(PlayerRawElem.s)
        IN  /\ Cleanup(PlayerRawElem) = StrV(clean)
            /\ (call \in PlayerIntFields /\ IntegerText(clean))
                  => ret = IntV(IntegerOf(clean))
            /\ (call \in PlayerFloatFields /\ IntegerText(clean))
                  => ret = FloatV(IntegerOf(clean), 0)
            /\ (call \in PlayerFloatFields /\ DecimalText(clean))
                  => \E k \in DOMAIN clean :
                        /\ clean[k] = "."
                        /\ ret = FloatV(DigitsVal(Replace(clean, ".")),
                                        Len(clean) - k)

C3_Witness ==
    /\ call = "points"
    /\ PlayerRawElem = StrV(<<"1", ",", "2">>)
    /\ ret = IntV(12)

(***************************************************************************)
(* Claims about the Team sub-token accessors (SpecTeam)                    *)
(***************************************************************************)
\* The raw "W-L" field the accessor last read returns to the decorator
TeamRawRecord == obj.f[SubTokenSource[call]]

WinsAccessors == {"home_wins", "away_wins"}

LossesAccessors == {"home_losses", "away_losses"}

\* The place of the '-' in a text W-L, W and L digits; 0 for any other text
DashOfWinLoss(s) ==
    LET at == {k \in DOMAIN s :
                 /\ s[k] = "-"
                 /\ k > 1 /\ k < Len(s)
                 /\ AllDigits(Slice(s, 1, k - 1))
                 /\ AllDigits(Slice(s, k + 1, Len(s)))}
    IN  IF at = {} THEN 0 ELSE CHOOSE k \in at : TRUE

\* C4: of a record "W-L", W and L non-negative integers, every *_wins
\* accessor returns W and the *_losses accessor of the same field returns L.
C4_WinsAndLosses ==
    (/\ call \in WinsAccessors \cup LossesAccessors
     /\ IsStr(TeamRawRecord)
     /\ DashOfWinLoss(TeamRawRecord.s) > 0) =>
        LET s == TeamRawRecord.s
            k == DashOfWinLoss(s)
        IN  ret = IF call \in WinsAccessors
                  THEN IntV(DigitsVal(Slice(s, 1, k - 1)))
                  ELSE IntV(DigitsVal(Slice(s, k + 1, Len(s))))

C4_Witness ==
    /\ call = "home_losses"
    /\ TeamRawRecord = StrV(<<"5", "3", "-", "3", "5">>)
    /\ ret = IntV(35)

\* C5: sub-token coercion never raises, and returns None when the raw value
\* is absent or not a str, when the position read is beyond the parts that
\* '-' separates, and when the sub-token read is not an integer.
C5_SubTokenYieldsNone ==
    call \in WinsAccessors \cup LossesAccessors =>
        LET pos == IF call \in WinsAccessors THEN 0 ELSE 1
        IN  /\ ~IsRaise(ret)
            /\ ~IsStr(TeamRawRecord) => ret = None
            /\ IsStr(TeamRawRecord) =>
                  LET s == TeamRawRecord.s
                      dashes == Cardinality({i \in DOMAIN s : s[i] = "-"})
                  IN  /\ pos > dashes => ret = None
                      /\ (/\ pos <= dashes
                          /\ LET part == Split(s, "-")[pos + 1]
                             IN  part = <<>> \/ ~AllDigits(part))
                            => ret = None

C5_Witness ==
    /\ call = "home_losses"
    /\ TeamRawRecord = StrV(<<"5", "3">>)
    /\ ret = None

\* C6: for a field name with no entry in TEAM_ELEMENT, sub-token coercion
\* reads position 0: it returns the integer of the first sub-token.
C6_DefaultPositionZero ==
    (/\ call \in DOMAIN SubTokenSource
     /\ call \notin DOMAIN TEAM_ELEMENT
     /\ IsStr(TeamRawRecord)
     /\ LET first == Split(TeamRawRecord.s, "-")[1]
        IN  first # <<>> /\ AllDigits(first)) =>
        ret = IntV(DigitsVal(Split(TeamRawRecord.s, "-")[1]))

(***************************************************************************)
(* Claims about the Game accessors (SpecGame)                              *)
(***************************************************************************)
\* The raw field the accessor last read looks at
GameRaw == obj.f[call]

\* C1: whichever fields the row lacks, reading an accessor of the Game never
\* raises, and a numeric accessor whose raw text is absent yields None.
C1_AccessorsNeverRaise ==
    call \in GameAccessors =>
        /\ ~IsRaise(ret)
        /\ (call \in GameNumericAccessors \ {"innings"} /\ GameRaw = None)
              => ret = None

\* C7 as claimed: 'W' maps to WIN, 'L' to LOSS, and every other marker to WIN.
C7_UnrecognizedIsWin ==
    (call = "result" /\ IsStr(GameRaw)) =>
        ret = IF GameRaw.s = <<"L">> THEN LOSS ELSE WIN

\* C7, amended: 'W' (in either case) maps to WIN, and every other marker
\* text, 'L' and the unrecognized ones alike, maps to LOSS.
C7_ResultRemap ==
    (call = "result" /\ IsStr(GameRaw)) =>
        ret = IF GameRaw.s \in {<<"W">>, <<"w">>} THEN WIN ELSE LOSS

C7_Witness ==
    /\ call = "result"
    /\ GameRaw = StrV(<<"T">>)
    /\ ret = LOSS

\* C8: location is AWAY exactly when the raw marker is "@" and HOME for every
\* other raw value, the empty text and None included; it never raises.
C8_LocationRemap ==
    call = "location" =>
        /\ ret \in {HOME, AWAY}
        /\ ret = AWAY <=> (IsStr(GameRaw) /\ GameRaw.s = <<"@">>)

C8_Witness ==
    /\ call = "location"
    /\ GameRaw = None
    /\ ret = HOME

\* An unsigned decimal: digits, or digits, a point and digits
UnsignedNumber(s) == (s # <<>> /\ AllDigits(s)) \/ DecimalText(s)

\* The float an unsigned decimal denotes
NumberOf(s) ==
    LET dots == {i \in DOMAIN s : s[i] = "."}
    IN  IF dots = {} THEN FloatV(DigitsVal(s), 0)
        ELSE FloatV(DigitsVal(Replace(s, ".")),
                    Len(s) - (CHOOSE i \in dots : TRUE))

\* The number N of a text "up N" (any spaces between), <<>> for other texts
LeadOf(low) ==
    LET at == {k \in 3..(Len(low) + 1) :
                 /\ OccursAt(low, <<"u", "p">>, 1)
                 /\ \A i \in 3..(k - 1) : low[i] = " "
                 /\ UnsignedNumber(Slice(low, k, Len(low)))}
    IN  IF at = {} THEN <<>>
        ELSE Slice(low, CHOOSE k \in at : TRUE, Len(low))

C25_DayOrNightRemap ==
    call = "day_or_night" =>
        /\ ~IsRaise(ret)
        /\ ret = IF IsStr(GameRaw) /\ GameRaw.s \in {<<"N">>, <<"n">>}
                 THEN NIGHT ELSE DAY

\* The digits of a text, in order
DigitsOf(s) == SelectSeq(s, IsDigit)

\* A text made of digits and commas, with a digit
DigitsAndCommas(s) ==
    /\ \A i \in DOMAIN s : IsDigit(s[i]) \/ s[i] = ","
    /\ \E i \in DOMAIN s : IsDigit(s[i])

\* C26: attendance returns the integer obtained by removing every "," from
\* the raw text, for every raw text made of digits and commas ("41,212"
\* gives 41212).
C26_AttendanceWithoutCommas ==
    (call = "attendance" /\ IsStr(GameRaw) /\ DigitsAndCommas(GameRaw.s)) =>
        ret = IntV(DigitsVal(DigitsOf(GameRaw.s)))

C26_Witness ==
    /\ call = "attendance"
    /\ GameRaw = StrV(<<"1", ",", ",", "2">>)
    /\ ret = IntV(12)

\* C30: innings returns 9 when the raw text is absent (None) or empty and
\* the integer value of the text otherwise; save returns None when the raw
\* text is the empty string and the raw value unchanged otherwise.
C30_DefaultSubstitutions ==
    /\ call = "innings" =>
          /\ Falsy(GameRaw) => ret = IntV(9)
          /\ (IsStr(GameRaw) /\ GameRaw.s # <<>> /\ AllDigits(GameRaw.s))
                => ret = IntV(DigitsVal(GameRaw.s))
    /\ call = "save" =>
          ret = IF GameRaw = StrV(<<>>) THEN None ELSE GameRaw

\* The innings of a row without the cell, and the save of a row whose cell
\* is empty
C30_Witness ==
    \/ /\ call = "innings"
       /\ GameRaw = None
       /\ ret = IntV(9)
    \/ /\ call = "save"
       /\ GameRaw = StrV(<<>>)
       /\ ret = None

(***************************************************************************)
(* Claims about the Teams collection (SpecTeams)                           *)
(***************************************************************************)
\* The teams of the collection whose abbreviation is the key, ignoring case
TeamsMatching(key) ==
    {i \in DOMAIN obj.teams :
        /\ IsStr(obj.teams[i].f.abbreviation)
        /\ Upper(obj.teams[i].f.abbreviation.s) = Upper(key)}

\* C10: lookup by abbreviation is case-insensitive: when a team of the
\* collection has the key's abbreviation ignoring case, the lookups of the
\* key, of the key in upper case and of the key in lower case return the
\* same Team, and its abbreviation is the key ignoring case.
C10_CaseInsensitiveLookup ==
    (call.op = "getitem" /\ TeamsMatching(call.key) # {}) =>
        /\ ret.t = "Team"
        /\ ret.id \in TeamsMatching(call.key)
        /\ TeamsGetItem(obj, Upper(call.key)) = ret
        /\ TeamsGetItem(obj, Lower(call.key)) = ret

\* C11: a lookup of a key that no team of the collection has as its
\* abbreviation (ignoring case) raises ValueError and no other error,
\* whatever the collection holds, a team without an abbreviation included.
C11_NotFoundIsValueError ==
    (call.op \in {"getitem", "call"} /\ TeamsMatching(call.key) = {}) =>
        ret = Raise("ValueError")

\* The values of the dictionary the collection has been constructed from
DictValues == IF call.key = None THEN <<>> ELSE call.key.s

\* C18: constructing Teams makes one Team for each key of the dictionary, in
\* the dictionary's order: the length is the number of keys, iteration
\* yields the teams in that order, each with the rank and the row recorded
\* for its key; a dictionary that is None or empty gives a collection of
\* length 0.
C18_OneTeamPerKey ==
    call.op = "init" =>
        /\ obj.t = "Teams"
        /\ TeamsLen(obj) = IntV(Len(DictValues))
        /\ Len(TeamsIter(obj).s) = Len(DictValues)
        /\ \A i \in DOMAIN DictValues :
              LET team == TeamsIter(obj).s[i]
              IN  /\ team.f["rank"] = DictValues[i].rank
                  /\ team.f["abbreviation"] =
                        ParseField(PARSING_SCHEME, DictValues[i].data,
                                   "abbreviation", 0)

(***************************************************************************)
(* Claims about the Schedule collection (SpecSchedule)                     *)
(***************************************************************************)
\* Whether two datetimes have the same calendar date
SameDay(a, b) ==
    YearOf(a) = YearOf(b) /\ MonthOf(a) = MonthOf(b) /\ DayOf(a) = DayOf(b)

\* The games of the schedule whose date parses to the calendar date of date
GamesOn(date) ==
    {i \in DOMAIN obj.games :
        /\ ~IsRaise(GameDatetime(obj.games[i].f))
        /\ SameDay(GameDatetime(obj.games[i].f), date)}

\* C12: the lookup by date compares the calendar date only: when a game of
\* the schedule is of the calendar date asked for, the lookup returns a Game
\* whose parsed date is that date, and returns the same Game for every other
\* time of day of that date.
C12_TimeOfDayIgnored ==
    (call.op = "call" /\ GamesOn(call.key) # {}) =>
        /\ ret.t = "Game"
        /\ ret.id \in GamesOn(call.key)
        /\ \A q \in QueryDates :
              SameDay(q, call.key) => ScheduleCall(obj, q) = ret

\* C13: the lookup of a date that no game of the schedule is of raises
\* ValueError 'No games found for requested date', also when a game of the
\* schedule has no date or one that does not parse; and when a game is of
\* the date, a Game of that date is returned, also when an earlier game has
\* no date or one that does not parse.
C13_NotFoundOrFound ==
    call.op = "call" =>
        /\ GamesOn(call.key) = {} =>
              ret = RaiseMsg("ValueError", "No games found for requested date")
        /\ GamesOn(call.key) # {} =>
              (ret.t = "Game" /\ ret.id \in GamesOn(call.key))

(***************************************************************************)
(* Claims about construction (SpecBuild)                                   *)
(***************************************************************************)
\* The fragment the last construction has parsed
BuiltFrom ==
    IF call.op = "TeamByName"
    THEN call.args.page[call.args.team_name].data
    ELSE call.args.data

\* The last call has constructed a Team from a fragment
TeamBuilt ==
    \/ call.op = "Team"
    \/ call.op = "TeamByName" /\ call.args.team_name \in DOMAIN call.args.page

\* C14: construction never fails for a missing field: whichever parts the
\* fragment lacks (the anchor with the team's name and the boxscore cell
\* included), constructing a Team or a Game from it yields the entity.
C14_ConstructionNeverFails ==
    /\ TeamBuilt => obj.t = "Team"
    /\ call.op = "Game" => obj.t = "Game"

\* The raw field an accessor of the entity reads
RawFieldOf(a) ==
    IF obj.t = "Team" /\ a \in DOMAIN SubTokenSource THEN SubTokenSource[a]
    ELSE a

\* The accessors that return the raw value or a number made from it
TypedAccessors ==
    IF obj.t = "Team" THEN TeamAccessors
    ELSE GamePlainAccessors \cup (GameNumericAccessors \ {"innings"})

\* C15: after construction every field whose text the fragment lacks is
\* None, the Team's name and the Game's boxscore identifier included, and a
\* typed accessor of a field that is None yields None.
C15_AbsentIsNone ==
    /\ TeamBuilt =>
          /\ obj.t = "Team"
          /\ \A field \in DOMAIN PARSING_SCHEME :
                BuiltFrom.cells[PARSING_SCHEME[field]] = <<>>
                    => obj.f[field] = None
          /\ BuiltFrom.anchors = <<>> => obj.f["name"] = None
    /\ call.op = "Game" =>
          /\ obj.t = "Game"
          /\ \A field \in GameParsedFields :
                BuiltFrom.cells[SCHEDULE_SCHEME[field]] = <<>>
                    => obj.f[field] = None
          /\ BuiltFrom.boxscore = <<>> => obj.f["boxscore"] = None
    /\ (/\ call.op = "read"
        /\ call.args \in TypedAccessors
        /\ obj.f[RawFieldOf(call.args)] = None) => ret = None

\* C16 as claimed: on every construction path the rank and the year that the
\* caller has passed for a Team, and the year passed for a Game, are the
\* entity's rank and year after construction.
C16_IdentifiersKept ==
    /\ (call.op = "Team" /\ obj.t = "Team") =>
          /\ obj.f["rank"] = call.args.rank
          /\ obj.f["year"] = call.args.year
    /\ (call.op = "TeamByName" /\ obj.t = "Team") =>
          /\ call.args.rank # None => obj.f["rank"] = call.args.rank
          /\ call.args.year # None => obj.f["year"] = call.args.year
    /\ (call.op = "Game" /\ obj.t = "Game") =>
          obj.f["year"] = call.args.year

\* C16, amended: parsing leaves rank and year as they are before it.  Of a
\* Team built from a fragment they are the caller's arguments, and so is the
\* year of a Game; of a Team built from a team name, rank is the rank the
\* retrieved dictionary has for the team and year is the year the retrieval
\* returns, whatever rank the caller has passed.
C16_IdentifiersNotParsed ==
    /\ (call.op = "Team" /\ obj.t = "Team") =>
          /\ obj.f["rank"] = call.args.rank
          /\ obj.f["year"] = call.args.year
    /\ (call.op = "TeamByName" /\ obj.t = "Team") =>
          /\ obj.f["rank"] = call.args.page[call.args.team_name].rank
          /\ obj.f["year"] =
                RetrieveAllTeams(call.args.year, call.args.page).year
    /\ (call.op = "Game" /\ obj.t = "Game") =>
          obj.f["year"] = call.args.year

C16_Witness ==
    /\ call.op = "TeamByName"
    /\ obj.t = "Team"
    /\ call.args.rank = IntV(5)
    /\ call.args.year = StrV(<<"2", "0", "1", "8">>)
    /\ obj.f["rank"] = IntV(3)
    /\ obj.f["year"] = StrV(<<"2", "0", "1", "8">>)

\* The orders the fields of a Team are visited in: the order of __init__ and
\* its reverse, each started at any of its fields
FieldOrders ==
    LET n == Len(TeamFields)
        forward(k) == [i \in 1..n |-> TeamFields[((i + k - 1) % n) + 1]]
        backward(k) == [i \in 1..n |-> TeamFields[n - ((i + k - 1) % n)]]
    IN  {forward(k) : k \in 0..(n - 1)} \cup {backward(k) : k \in 0..(n - 1)}

\* The occurrence of its locator a field reads
OccurrenceOf(field) ==
    IF field = "total_runs" THEN 1 ELSE 0

\* C28: the Team record parser makes a single pass in which every declared
\* field other than rank, year and name is assigned once the text the Field
\* Extraction Engine finds at the occurrence ELEMENT_INDEX registers for the
\* field, or at occurrence 0 when it registers none; name is assigned once
\* by its own path; and the result does not depend on the order in which the
\* fields are visited.
C28_SinglePass ==
    TeamBuilt =>
        /\ obj.t = "Team"
        /\ \A field \in DOMAIN PARSING_SCHEME :
              LET found == BuiltFrom.cells[PARSING_SCHEME[field]]
              IN  obj.f[field] =
                     IF OccurrenceOf(field) < Len(found)
                     THEN found[OccurrenceOf(field) + 1] ELSE None
        /\ obj.f["name"] = ParseName(BuiltFrom)
        /\ \A order \in FieldOrders :
              ParseTeamDataIn(order, [obj EXCEPT !.f =
                    [g \in DOMAIN obj.f |->
                        IF g \in {"rank", "year"} THEN obj.f[g] ELSE None]],
                    BuiltFrom, 1) = obj

(***************************************************************************)
(* Claims about reads of any entity (SpecEntity)                           *)
(***************************************************************************)
\* C17: the typed accessors are pure: a read of an accessor of a player, a
\* Team or a Game leaves every raw field of the entity as it is, and a read
\* of the accessor read just before returns the same value again.
C17_AccessorsPure ==
    [][/\ obj' = obj
       /\ (call' = call /\ call # "init") => ret' = ret]_vars

C17_Witness ==
    /\ call = "innings"
    /\ obj.f["innings"] = StrV(<<>>)
    /\ ret = IntV(9)

\* Whether a row of the table is a header row
IsHeaderRow(row) == row.tag = <<"<", "t", "r", " ", "c", "l", "a", "s", "s",
      "=", "\"", "t", "h", "e", "a", "d", "\"", ">">>

\* The rows of the table the schedule has been constructed from that are no
\* header rows, in the table's order
GameRowsGiven == SelectSeq(call.key, LAMBDA row : ~IsHeaderRow(row))

\* C19: constructing a Schedule makes one Game for each row of the table
\* that is no header row, in the table's order: the length is the number of
\* such rows, schedule[i] is the Game of the i-th of them, and iteration
\* yields the same games in the same order.
C19_OneGamePerRow ==
    /\ call.op = "init" =>
          /\ ScheduleLen(obj) = IntV(Len(GameRowsGiven))
          /\ Len(ScheduleIter(obj).s) = Len(GameRowsGiven)
          /\ \A i \in DOMAIN GameRowsGiven :
                LET game == ScheduleGetItem(obj, i - 1)
                IN  /\ game.t = "Game"
                    /\ game.id = i
                    /\ game.f = Game(GameRowsGiven[i], SeasonYear).f
                    /\ game.f["date"] =
                          ParseField(SCHEDULE_SCHEME, GameRowsGiven[i],
                                     "date", 0)
                    /\ ScheduleIter(obj).s[i] = game
    /\ call.op = "len" => ret = IntV(Len(ScheduleIter(obj).s))
    /\ (call.op = "getitem" /\ call.key \in 0..(Len(obj.games) - 1)) =>
          ret = ScheduleIter(obj).s[call.key + 1]

C19_Witness ==
    /\ call.op = "init"
    /\ Len(call.key) = 3
    /\ ~IsHeaderRow(call.key[1])
    /\ IsHeaderRow(call.key[2])
    /\ ~IsHeaderRow(call.key[3])
    /\ Len(obj.games) = 2
    /\ obj.games[1].f["date"] = StrV(<<"M", "o", "n", "d", "a", "y", ",",
          " ", "A", "p", "r", " ", "1">>)
    /\ obj.games[2].f["date"] = StrV(<<"T", "u", "e", "s", "d", "a", "y",
          ",", " ", "A", "p", "r", " ", "2">>)

(***************************************************************************)
(* Claims about either collection (SpecCollection)                         *)
(***************************************************************************)
\* The key of a Team: its abbreviation without regard to case, None when it
\* has none
TeamKey(abbreviation) ==
    IF IsStr(abbreviation) THEN StrV(Upper(abbreviation.s)) ELSE None

\* The key of a Game: the calendar date its date text is of in the year,
\* None when the text is of no date
GameKey(date, year) ==
    LET datetime == Strptime(PyStr(date).s \o <<" ">> \o year.s)
    IN  IF IsRaise(datetime) THEN None ELSE datetime

\* The keys of the entries of the collection, in its order
EntryKeys ==
    IF obj.t = "Teams"
    THEN [i \in DOMAIN obj.teams |-> TeamKey(obj.teams[i].f["abbreviation"])]
    ELSE [i \in DOMAIN obj.games |->
            GameKey(obj.games[i].f["date"], obj.games[i].f["year"])]

\* What the first match of a locator in a row holds
FirstOf(cell) == IF cell = <<>> THEN None ELSE cell[1]

\* The keys that the values of the dictionary, or the rows of the table that
\* are no header rows, carry, in their order
GivenKeys ==
    IF obj.t = "Teams"
    THEN [i \in DOMAIN DictValues |->
            TeamKey(FirstOf(DictValues[i].data.cells["team_ID"]))]
    ELSE [i \in DOMAIN GameRowsGiven |->
            GameKey(FirstOf(GameRowsGiven[i].cells["date"]), SeasonYear)]

\* No two places of the sequence hold the same key
Unique(keys) ==
    \A i, j \in DOMAIN keys : (i # j /\ keys[i] # None) => keys[i] # keys[j]

\* C20 as claimed: once a collection is constructed, no two Teams entries
\* have the same abbreviation ignoring case and no two Schedule entries have
\* the same calendar date.
C20_KeysUnique == obj.t \in {"Teams", "Schedule"} => Unique(EntryKeys)

\* C20, amended: construction keeps one entry for each value of the
\* dictionary, or each row that is no header row, with the key it carries:
\* two entries have the same key exactly when what they are made from has,
\* so the keys of a collection are unique exactly when the keys given are.
C20_KeysAsGiven ==
    (call.op = "init" /\ obj.t \in {"Teams", "Schedule"}) =>
        /\ EntryKeys = GivenKeys
        /\ Unique(EntryKeys) <=> Unique(GivenKeys)

C20_Witness ==
    /\ call.op = "init"
    /\ obj.t = "Schedule"
    /\ Len(obj.games) = 2
    /\ obj.games[1].f["date"] = StrV(<<"M", "o", "n", "d", "a", "y", ",",
          " ", "A", "p", "r", " ", "1">>)
    /\ obj.games[2].f["date"] = StrV(<<"M", "o", "n", "d", "a", "y", ",",
          " ", "A", "p", "r", " ", "1">>)
    /\ ~Unique(EntryKeys)

(***************************************************************************)
(* Claims about what reads leave behind (SpecCollection, SpecLinked)       *)
(***************************************************************************)
\* C21: collections are not mutated after construction: no lookup (found or
\* not), indexed access, iteration, length query or export of a Teams or a
\* Schedule changes the entities the collection holds or their order.
C21_NotMutated == [][obj' = obj]_vars

\* A collection of two entries after a lookup that failed, and a collection
\* of teams after its export
C21_Witness ==
    \/ /\ obj.t = "Schedule"
       /\ Len(obj.games) = 2
       /\ call.op = "call"
       /\ IsRaise(ret)
    \/ /\ obj.t = "Teams"
       /\ Len(obj.teams) = 2
       /\ call.op = "dataframes"
       /\ ret.t = "DataFrame"

\* C22: all document retrieval happens during construction: once a Team,
\* Game, Teams or Schedule has been constructed, reading any of its accessors
\* requests nothing more from the document provider.
C22_NoRetrievalOnRead ==
    [][obj.t \in {"Team", "Game", "Teams", "Schedule"}
          => fetched' = fetched]_vars

\* C22 as the code has it: a read requests a document exactly when it is a
\* read of Team.schedule, Team.roster or Game.boxscore, and then it requests
\* one, the document of the object it builds; every other read of a Team, a
\* Game, a Teams or a Schedule requests none.
C22_RetrievalOnLinkedReads ==
    [][obj.t \in {"Team", "Game", "Teams", "Schedule"} =>
          IF obj.t \in {"Team", "Game"} /\ call'.args \in LinkedAccessors
          THEN fetched' = Append(fetched, call'.args)
          ELSE fetched' = fetched]_vars

\* A Game read twice for its boxscore, and a Team read for a plain accessor
\* after a read of its schedule
C22_Witness ==
    \/ /\ obj.t = "Game"
       /\ call.op = "read"
       /\ call.args = "boxscore"
       /\ fetched = <<"boxscore", "boxscore">>
    \/ /\ obj.t = "Team"
       /\ call.op = "read"
       /\ call.args = "abbreviation"
       /\ fetched = <<"schedule">>

\* C23: the Teams bulk export is the concatenation of every team's
\* single-row projection: one row per team in collection order, each under
\* that team's abbreviation and equal to the team's own dataframe row; it is
\* defined for every constructed collection, an empty one included.
C23_ExportIsConcatenation ==
    call.op = "dataframes" =>
        /\ ret.t = "DataFrame"
        /\ Len(ret.rows) = Len(obj.teams)
        /\ Len(ret.index) = Len(obj.teams)
        /\ \A i \in DOMAIN obj.teams :
              /\ ret.index[i] = obj.teams[i].f.abbreviation
              /\ TeamDataframe(obj.teams[i]) =
                    [t |-> "DataFrame", index |-> <<ret.index[i]>>,
                     rows |-> <<ret.rows[i]>>]

(***************************************************************************)
(* Claims about a player of several seasons (SpecSeasons)                  *)
(***************************************************************************)
\* The place of a season key among the keys of the player's dictionary
SeasonPlace(key) ==
    CHOOSE i \in DOMAIN obj.player_data.s : obj.player_data.s[i].key = key

\* C24: for multi-season input (a mapping season key -> fragment of n
\* seasons) every parsed field holds exactly n raw values, the i-th the
\* value extracted from the i-th season's fragment in the mapping's order,
\* so that a season's value is found at the place of its key; for a single
\* fragment every parsed field holds exactly one raw value.
C24_SeasonValuesInOrder ==
    \A f \in PlayerFields :
        IF obj.player_data.t = "dict"
        THEN LET items == obj.player_data.s
             IN  /\ Len(obj.raw[f]) = Len(items)
                 /\ \A i \in DOMAIN items :
                       /\ obj.raw[f][i] =
                             FirstOf(items[i].value.data.cells[
                                        PLAYER_SCHEME[f]])
                       /\ SeasonPlace(items[i].key) = i
        ELSE /\ Len(obj.raw[f]) = 1
             /\ obj.raw[f][1] = FirstOf(obj.player_data.cells[
                                           PLAYER_SCHEME[f]])

\* A player of three seasons, the second without points
C24_Witness ==
    /\ obj.player_data.t = "dict"
    /\ obj.raw["points"] = <<StrV(<<"1", "2">>), None, StrV(<<"7">>)>>
    /\ call = "points"
    /\ obj.index = 2
    /\ ret = IntV(7)

\* Whether _index is a place of the field's list, counted from the start or,
\* as Python does for a negative index, from the end
IndexInRange(list, index) ==
    \/ index >= 0 /\ index < Len(list)
    \/ index < 0 /\ 0 - index <= Len(list)

\* The list of the one raw value _index selects
Selected(list, index) ==
    <<IF index >= 0 THEN list[index + 1] ELSE list[Len(list) + index + 1]>>

\* C29: a typed accessor of a player returns the coercion of the raw value
\* at place _index of the field's per-season list; when _index is outside
\* the list's range it returns None and does not raise.
C29_IndexOverflowIsNone ==
    call \in PlayerFields =>
        LET list == obj.raw[call]
        IN  IF IndexInRange(list, obj.index)
            THEN LET one == [index |-> 0,
                             raw |-> [f \in PlayerFields |->
                                        Selected(list, obj.index)]]
                 IN  ret = IF call \in PlayerIntFields
                           THEN IntProperty(one, call)
                           ELSE FloatProperty(one, call)
            ELSE ret = None

(***************************************************************************)
(* Claims about entries that share a key (SpecCollection)                  *)
(***************************************************************************)
\* The entries of the collection that have the key looked up
EntriesOfKey ==
    IF obj.t = "Teams" THEN TeamsMatching(call.key) ELSE GamesOn(call.key)

\* The first of a set of places
Earliest(places) == CHOOSE i \in places : \A j \in places : i <= j

\* C27: when several entries of a collection share the key looked up, the
\* lookup returns the first of them in collection order: the earliest team
\* whose abbreviation matches ignoring case, the earliest game of the
\* calendar date; a later duplicate is never returned.
C27_FirstMatchWins ==
    (/\ obj.t \in {"Teams", "Schedule"}
     /\ call.op \in {"getitem", "call"}
     /\ obj.t = "Schedule" => call.op = "call"
     /\ Cardinality(EntriesOfKey) >= 2) =>
        /\ ret.t \in {"Team", "Game"}
        /\ ret.id = Earliest(EntriesOfKey)

====
